---------------------------- MODULE Spec2Model ----------------------------
(***************************************************************************)
(* Model of the retrieval-augmented chat pipeline of src/src/rag_system.py *)
(*                                                                         *)
(*   - DocumentProcessor.chunk_text : the chunker, one loop iteration per  *)
(*     step (specification SpecChunk);                                     *)
(*   - RAGSystem.search_documents, generate_response, chat : one chat turn *)
(*     per pass through Idle -> Retrieving -> NoResults | Generating ->    *)
(*     Responded (specification SpecChat).                                 *)
(*                                                                         *)
(* and of the programs around it:                                          *)
(*                                                                         *)
(*   - process_documents and DocumentIndexer.index_documents of            *)
(*     src/src/index_documents.py: one step per file read, per chunk       *)
(*     embedded and per batch uploaded (specifications SpecIndex,          *)
(*     SpecReindex and SpecUpload);                                        *)
(*   - repl_loop of src/api/cli_direct.py: one step per line typed         *)
(*     (specification SpecRepl).                                           *)
(*                                                                         *)
(* Python strings that are sliced are sequences of one-character strings.  *)
(***************************************************************************)
EXTENDS Integers, Sequences, FiniteSets

(***************************************************************************)
(* Bounds of the model.                                                    *)
(***************************************************************************)
MaxLen == 8
MaxBlankLen == 5
MaxChunk == 7
MaxIters == 10
MaxResults == 2
MaxRuns == 2
MaxFiles == 2
MaxPaths == 2
MaxDocs == 201
MaxMessages == 5

(***************************************************************************)
(* Python helpers.                                                         *)
(***************************************************************************)
Min(a, b) == IF a <= b THEN a ELSE b

Max(a, b) == IF a >= b THEN a ELSE b

CeilDiv(a, b) == (a + b - 1) \div b

\* The characters texts are made of: a letter, the sentence terminator and
\* a whitespace character.
Chars == {"a", ".", " "}

\* The texts chunked: every text of letters and periods up to MaxLen
\* characters, and every text that also has whitespace up to MaxBlankLen
\* characters.
Texts ==
    UNION {[1..n -> {"a", "."}] : n \in 0..MaxLen}
    \cup UNION {[1..n -> Chars] : n \in 0..MaxBlankLen}

\* A slice bound k of a sequence of length n, as Python normalises it:
\* a negative bound counts from the end, and both are clamped to 0..n.
PyIndex(k, n) == IF k < 0 THEN Max(k + n, 0) ELSE Min(k, n)

\* s[i:j]
PySlice(s, i, j) ==
    LET lo == PyIndex(i, Len(s))
        hi == PyIndex(j, Len(s))
    IN  IF hi <= lo THEN <<>> ELSE SubSeq(s, lo + 1, hi)

\* s.rfind(c): the 0-based offset of the last c in s, or -1.
rfind(s, c) ==
    IF \E i \in 1..Len(s) : s[i] = c
    THEN (CHOOSE i \in 1..Len(s) :
              s[i] = c /\ \A j \in (i + 1)..Len(s) : s[j] # c) - 1
    ELSE -1

\* s.strip()
strip(s) ==
    LET keep == {i \in 1..Len(s) : s[i] # " "}
    IN  IF keep = {} THEN <<>>
        ELSE SubSeq(s, CHOOSE i \in keep : \A j \in keep : i <= j,
                       CHOOSE i \in keep : \A j \in keep : i >= j)

\* The chunk sizes n for which the double n * 0.7 is rounded below 7n/10
\* (n up to 1200), so that an offset of exactly 7n/10 compares greater.
RoundsBelow == {90, 170, 180, 330, 340, 350, 360, 650, 660, 670, 680, 690,
                700, 710, 720, 730}

\* last_period > chunk_size * 0.7
PastThreshold(last_period, size) ==
    \/ 10 * last_period > 7 * size
    \/ size \in RoundsBelow /\ 10 * last_period = 7 * size

(***************************************************************************)
(* State.                                                                  *)
(***************************************************************************)
VARIABLES
    text, chunk_size, overlap,  \* the arguments of chunk_text
    start,                      \* the cursor
    chunks,                     \* the chunks emitted so far
    spans,                      \* the (start, raw end, end) of each chunk
    iters,                      \* loop iterations run so far
    cpc,                        \* "loop" | "done"
    pc,                         \* the state of the chat turn
    question,                   \* the argument of chat
    embedOutcome,               \* what the embedding call of the turn did
    searchOutcome,              \* what the search call of the turn did
    completionOutcome,          \* what the completion call of the turn did
    embedCalls, searchCalls, completionCalls,   \* provider calls of the turn
    relevant_docs,              \* what search_documents returned
    context_docs,               \* what generate_response was called with
    answer,                     \* what generate_response returned
    raised,                     \* chat ended with an exception
    response,                   \* what chat returned
    ipc,                        \* where the indexing run is
    runsLeft,                   \* indexing runs still to be started
    corpus,                     \* the files of the document directory
    file_paths, chunk_args,     \* the arguments of process_documents
    fileIdx,                    \* the file process_documents is at
    fileChunks, chunkIdx,       \* the chunks of that file, and the next one
    documents, doc_id,          \* the records built so far, the next number
    readLog,                    \* what every read of the run gave
    embedLog,                   \* what every embedding call of the run did
    batchStart,                 \* the i of the upload loop
    sent,                       \* the batches uploaded by the call
    result,                     \* what index_documents returned
    log,                        \* what index_documents logged
    index,                      \* the search index: id -> record
    assigned,                   \* every (id, chunk) ever uploaded
    rpc,                        \* where the REPL is
    system_prompt,              \* the system prompt of the session
    messages,                   \* the conversation
    user_input,                 \* the stripped line last read
    request,                    \* the messages of the last completion call
    reply                       \* what that call gave

chunkVars == <<text, chunk_size, overlap, start, chunks, spans, iters, cpc>>

chatVars == <<pc, question, embedOutcome, searchOutcome,
              completionOutcome, embedCalls, searchCalls, completionCalls,
              relevant_docs, context_docs, answer, raised, response>>

indexVars == <<ipc, runsLeft, corpus, file_paths, chunk_args, fileIdx, fileChunks,
               chunkIdx, documents, doc_id, readLog, embedLog, batchStart,
               sent, result, log, index, assigned>>

replVars == <<rpc, system_prompt, messages, user_input, request, reply>>

vars == <<chunkVars, chatVars, indexVars, replVars>>

(***************************************************************************)
(* DocumentProcessor.chunk_text                                            *)
(***************************************************************************)
\* The text of the sentence-boundary example: 120 characters with a single
\* period at offset 85.
SnapExampleText == [i \in 1..120 |-> IF i = 86 THEN "." ELSE "a"]

\* The overlaps tried with a chunk size: every smaller one, an equal one
\* and a larger one.
Overlaps(size) == 0..(size + 1)

\* The chunk sizes whose 70% is a whole offset: one whose double product
\* chunk_size * 0.7 is rounded below it (90) and two whose product is exact.
ThresholdSizes == {10, 90, 100}

\* A text two characters longer than the window, with a single period at
\* offset p.
ThresholdText(size, p) == [i \in 1..(size + 2) |-> IF i = p + 1 THEN "." ELSE "a"]

ChunkArgs ==
    \/ /\ text \in Texts
       /\ chunk_size \in 1..MaxChunk
       /\ overlap \in Overlaps(chunk_size)
    \/ /\ text = SnapExampleText
       /\ chunk_size = 100
       /\ overlap = 20
    \/ /\ chunk_size \in ThresholdSizes
       /\ \E d \in {-1, 0, 1} :
             text = ThresholdText(chunk_size, (7 * chunk_size) \div 10 + d)
       /\ overlap = 0

ChunkInit ==
    /\ ChunkArgs
    /\ start = 0
    /\ chunks = <<>>
    /\ spans = <<>>
    /\ iters = 0
    /\ cpc = "loop"

\* The end of the window that starts at s: the raw end s + chunk_size, or
\* just after the last period of the raw window when the raw window ends
\* before the text does and that period is past 70% of chunk_size.
WindowEnd(txt, s, size) ==
    LET end == s + size
        chunk == PySlice(txt, s, end)
        last_period == rfind(chunk, ".")
    IN  IF end < Len(txt) /\ PastThreshold(last_period, size)
        THEN s + last_period + 1
        ELSE end

\* NextStart with the cursor moved one position too far.
NextStartSkipping(end, ovl) == end - ovl + 1

\* The cursor after the window that ends at end.
NextStart(end, ovl) == end - ovl

\* One iteration of the while loop.
ChunkStep ==
    /\ cpc = "loop"
    /\ start < Len(text)
    /\ iters < MaxIters
    /\ LET end == WindowEnd(text, start, chunk_size)
           chunk == PySlice(text, start, end)
       IN  /\ chunks' = Append(chunks, strip(chunk))
           /\ spans' = Append(spans, [start |-> start,
                                      raw |-> start + chunk_size,
                                      end |-> end])
           /\ start' = NextStart(end, overlap)
    /\ iters' = iters + 1
    /\ UNCHANGED <<text, chunk_size, overlap, cpc>>

\* The loop ends (its condition is false, or the break is taken) and
\* chunk_text returns chunks.
ChunkReturn ==
    /\ cpc = "loop"
    /\ start >= Len(text)
    /\ cpc' = "done"
    /\ UNCHANGED <<text, chunk_size, overlap, start, chunks, spans, iters>>

(***************************************************************************)
(* Properties of chunk_text (checked under SpecChunk).                     *)
(***************************************************************************)
ValidArgs == chunk_size >= 1 /\ 0 <= overlap /\ overlap < chunk_size

\* C1: for chunk_size >= 1 and 0 <= overlap < chunk_size the loop runs at
\* most ceil(L / (chunk_size - overlap)) times, L the length of the text.
C1_IterationBound ==
    ValidArgs => iters <= CeilDiv(Len(text), chunk_size - overlap)

\* C2: with overlap >= chunk_size on a non-empty text, a cursor that failed
\* to strictly increase ends the call with InvalidConfiguration: no further
\* iteration runs from a cursor that did not advance.
C2_FailFast ==
    (overlap >= chunk_size /\ Len(text) > 0 /\ iters >= 2)
        => cpc = "InvalidConfiguration"

\* The positions (1-based) of a text of length n that the slice [i:j] cuts.
SlicePositions(i, j, n) ==
    {p \in 1..n : PyIndex(i, n) < p /\ p <= PyIndex(j, n)}

\* C3: when chunk_text returns for valid arguments, the windows the chunks
\* were cut from cover every position of the text: the first starts at 0,
\* each next one starts at or before the end of the previous one, and the
\* last one reaches the end of the text.
C3_Coverage ==
    (cpc = "done" /\ ValidArgs) =>
        /\ Len(text) > 0 => spans[1].start = 0
        /\ \A k \in 2..Len(spans) : spans[k].start <= spans[k - 1].end
        /\ Len(text) > 0 => spans[Len(spans)].end >= Len(text)
        /\ \A p \in 1..Len(text) :
              \E k \in 1..Len(spans) :
                 p \in SlicePositions(spans[k].start, spans[k].end,
                                      Len(text))

\* A returned call with valid arguments, an overlap, several windows and a
\* window shortened to end after a period.
C3_Witness ==
    /\ cpc = "done"
    /\ ValidArgs
    /\ overlap > 0
    /\ Len(spans) >= 3
    /\ \E k \in 1..Len(spans) : spans[k].end < spans[k].raw

\* The offsets of the periods of a window.
PeriodOffsets(window) == {o \in 0..(Len(window) - 1) : window[o + 1] = "."}

\* C4: a window that ends before the end of the text and whose last period
\* lies in its last 30% (at an offset of at least 70% of chunk_size) gives
\* a span that ends just after that period; one with no period there gives
\* a span that ends at start + chunk_size.
C4_SentenceSnap ==
    \A k \in 1..Len(spans) :
       LET w == spans[k]
           offsets == PeriodOffsets(PySlice(text, w.start, w.raw))
           last == CHOOSE o \in offsets : \A q \in offsets : q <= o
       IN  /\ w.raw = w.start + chunk_size
           /\ w.raw < Len(text) =>
                 IF offsets # {} /\ 10 * last >= 7 * chunk_size
                 THEN w.end = w.start + last + 1
                 ELSE w.end = w.raw

(***************************************************************************)
(* Values of the chat pipeline.                                            *)
(***************************************************************************)
\* Config.max_search_results, the top_k of every search of a chat turn.
max_search_results == 5

\* A Python str and None, as values of answer.
Str(s) == [type |-> "str", val |-> s]

PyNone == [type |-> "NoneType", val |-> ""]

NoResultsAnswer ==
    Str("I couldn't find any relevant information in the documentation to answer your question.")

ErrorAnswer ==
    Str("I'm sorry, I encountered an error while generating a response.")

\* The marker appended to every context preview, and the preview length.
Marker == <<".", ".", ".">>

PreviewLen == 200

Questions == {"q1", "q2"}

\* Chunk contents of the index: n copies of the character c.
Content(n, c) == [i \in 1..n |-> c]

\* The chunk records of the index.
IndexDocs ==
    {[id |-> "doc_0", content |-> Content(2, "a"), title |-> "intro",
      source |-> "docs/intro.md"],
     [id |-> "doc_1", content |-> Content(PreviewLen, "b"),
      title |-> "guide", source |-> "docs/guide.md"],
     [id |-> "doc_2", content |-> Content(PreviewLen + 1, "c"),
      title |-> "faq", source |-> "docs/faq.md"]}

AllKeys == {"id", "content", "title", "source", "@search.score"}

\* The documents the search provider can return: a record of the index,
\* the fields it fills in (keys) and a score.  Scores are provider-defined,
\* of any sign.
RawDocs ==
    {[keys |-> k, id |-> d.id, content |-> d.content, title |-> d.title,
      source |-> d.source, score |-> sc] :
        k \in {AllKeys, AllKeys \ {"title", "source"},
               AllKeys \ {"content"}, AllKeys \ {"@search.score"}},
        d \in IndexDocs, sc \in {-1, 0, 2}}

\* What the search call does: it raises, or it returns an iterator over at
\* most top documents that may itself raise (broken) after the last one.
SearchOutcomes(top) ==
    {[raises |-> TRUE, docs |-> <<>>, broken |-> FALSE]}
    \cup {[raises |-> FALSE, docs |-> d, broken |-> b] :
              d \in UNION {[1..n -> RawDocs] : n \in 0..Min(MaxResults, top)},
              b \in BOOLEAN}

NoSearch == [raises |-> FALSE, docs |-> <<>>, broken |-> FALSE]

\* What the completion call does: it raises, or it returns a response with
\* no choices, or one whose first choice has the content given (a str, or
\* None).
CompletionOutcomes ==
    {[kind |-> "raise", content |-> PyNone],
     [kind |-> "nochoices", content |-> PyNone],
     [kind |-> "content", content |-> PyNone]}
    \cup {[kind |-> "content", content |-> Str(t)] :
              t \in {"", "The guide says so."}}

NoCompletion == [kind |-> "none", content |-> PyNone]

\* The result of a call: a value, or an exception.
Ok(v) == [raised |-> FALSE, value |-> v]

Raise == [raised |-> TRUE, value |-> <<>>]

NoReturn == [pending |-> TRUE]

(***************************************************************************)
(* DocumentProcessor.generate_embeddings                                   *)
(***************************************************************************)
\* Logs and re-raises a failure of the embedding call.
generate_embeddings(embed) ==
    IF embed = "fail" THEN Raise ELSE Ok("vector")

(***************************************************************************)
(* RAGSystem.search_documents                                              *)
(***************************************************************************)
\* doc.get(key, "")
Get(doc, key, value) == IF key \in doc.keys THEN value ELSE ""

\* The dict built from one returned document; doc["id"], doc["content"] and
\* doc["@search.score"] raise KeyError when the key is absent.
ReadDoc(doc) ==
    IF {"id", "content", "@search.score"} \subseteq doc.keys
    THEN Ok([id |-> doc.id,
             content |-> doc.content,
             title |-> Get(doc, "title", doc.title),
             source |-> Get(doc, "source", doc.source),
             score |-> doc.score])
    ELSE Raise

\* ReadResults keeping the documents read before the first failure.
ReadResultsPartial(search) ==
    LET bad == {i \in 1..Len(search.docs) : ReadDoc(search.docs[i]).raised}
        n == IF bad = {} THEN Len(search.docs)
             ELSE (CHOOSE i \in bad : \A j \in bad : i <= j) - 1
    IN  Ok([i \in 1..n |-> ReadDoc(search.docs[i]).value])

\* The list comprehension over the results: the list of all dicts, or the
\* exception of the first read or of the iterator.
ReadResults(search) ==
    IF \/ \E i \in 1..Len(search.docs) : ReadDoc(search.docs[i]).raised
       \/ search.broken
    THEN Raise
    ELSE Ok([i \in 1..Len(search.docs) |-> ReadDoc(search.docs[i]).value])

\* The body of the try block: embed the query, search, read the results.
SearchBody(embed, search) ==
    IF generate_embeddings(embed).raised THEN Raise
    ELSE IF search.raises THEN Raise
    ELSE ReadResults(search)

\* try: ... except Exception: return []
search_documents(embed, search) ==
    LET body == SearchBody(embed, search)
    IN  IF body.raised THEN Ok(<<>>) ELSE body

(***************************************************************************)
(* RAGSystem.generate_response                                             *)
(***************************************************************************)
\* The body of the try block: the completion call, then
\* response.choices[0].message.content.
CompletionBody(completion) ==
    IF completion.kind = "content" THEN Ok(completion.content) ELSE Raise

\* generate_response without the except clause.
generate_response_unguarded(completion) == CompletionBody(completion)

\* try: ... except Exception: return the fixed apology
generate_response(completion) ==
    LET body == CompletionBody(completion)
    IN  IF body.raised THEN Ok(ErrorAnswer) ELSE body

(***************************************************************************)
(* RAGSystem.chat                                                          *)
(***************************************************************************)
\* NoDocs testing for None instead of for an empty list.
NoDocsIsNone(docs) == FALSE

\* not relevant_docs
NoDocs(docs) == Len(docs) = 0

NoResultsResponse ==
    [answer |-> NoResultsAnswer, sources |-> <<>>, context_used |-> <<>>]

\* The documents in descending order of score.
RECURSIVE ByScore(_)
ByScore(docs) ==
    IF docs = <<>> THEN <<>>
    ELSE LET top == CHOOSE i \in 1..Len(docs) :
                       /\ \A j \in 1..Len(docs) : docs[j].score <= docs[i].score
                       /\ \A j \in 1..(i - 1) : docs[j].score < docs[i].score
             rest == [j \in 1..(Len(docs) - 1) |->
                         IF j < top THEN docs[j] ELSE docs[j + 1]]
         IN  <<docs[top]>> \o ByScore(rest)

\* Sources with the results re-sorted by score.
SourcesByScore(docs) ==
    [i \in 1..Len(docs) |-> [title |-> ByScore(docs)[i].title,
                             source |-> ByScore(docs)[i].source,
                             score |-> ByScore(docs)[i].score]]

\* The sources of the response.
Sources(docs) ==
    [i \in 1..Len(docs) |-> [title |-> docs[i].title,
                             source |-> docs[i].source,
                             score |-> docs[i].score]]

\* Preview with the marker appended only to a content that was cut.
PreviewMarkingCuts(content) ==
    IF Len(content) > PreviewLen
    THEN PySlice(content, 0, PreviewLen) \o Marker
    ELSE content

\* doc["content"][:200] + "..."
Preview(content) == PySlice(content, 0, PreviewLen) \o Marker

ContextUsed(docs) == [i \in 1..Len(docs) |-> Preview(docs[i].content)]

\* ChatResponse with no sources and no context when the answer is the
\* apology of a failed completion.
ChatResponseBareOnError(ans, docs) ==
    IF ans = ErrorAnswer
    THEN [answer |-> ans, sources |-> <<>>, context_used |-> <<>>]
    ELSE [answer |-> ans, sources |-> Sources(docs),
          context_used |-> ContextUsed(docs)]

\* The response chat returns after generate_response.
ChatResponse(ans, docs) ==
    [answer |-> ans, sources |-> Sources(docs),
     context_used |-> ContextUsed(docs)]

\* AfterRetrieval with the retrieval tried again when it found nothing.
AfterRetrievalRetrying(found) ==
    IF found.raised THEN "Raised"
    ELSE IF NoDocs(found.value) THEN "Retrieving"
    ELSE "Generating"

\* Where chat goes after search_documents: to the fixed response when
\* nothing was found, to generate_response otherwise.
AfterRetrieval(found) ==
    IF found.raised THEN "Raised"
    ELSE IF NoDocs(found.value) THEN "NoResults"
    ELSE "Generating"

\* ContextDocs with the results of score 0 or less left out.
ContextDocsAboveZero(docs) == SelectSeq(docs, LAMBDA d : d.score > 0)

\* The documents chat hands to generate_response.
ContextDocs(docs) == docs

ChatIdle ==
    /\ pc = "Idle"
    /\ question = ""
    /\ embedOutcome = "none"
    /\ searchOutcome = NoSearch
    /\ completionOutcome = NoCompletion
    /\ embedCalls = 0
    /\ searchCalls = 0
    /\ completionCalls = 0
    /\ relevant_docs = <<>>
    /\ context_docs = <<>>
    /\ answer = PyNone
    /\ raised = FALSE
    /\ response = NoReturn

\* chat(q) is called: a new turn.
Ask ==
    /\ pc \in {"Idle", "Responded", "Raised"}
    /\ \E q \in Questions : question' = q
    /\ pc' = "Retrieving"
    /\ embedOutcome' = "none"
    /\ searchOutcome' = NoSearch
    /\ completionOutcome' = NoCompletion
    /\ embedCalls' = 0
    /\ searchCalls' = 0
    /\ completionCalls' = 0
    /\ relevant_docs' = <<>>
    /\ context_docs' = <<>>
    /\ answer' = PyNone
    /\ raised' = FALSE
    /\ response' = NoReturn
    /\ UNCHANGED <<chunkVars, indexVars, replVars>>

\* relevant_docs = self.search_documents(question)
Retrieve ==
    /\ pc = "Retrieving"
    /\ \E embed \in {"ok", "fail"} :
       \E search \in SearchOutcomes(max_search_results) :
          LET found == search_documents(embed, search)
          IN  /\ embedOutcome' = embed
              /\ embedCalls' = embedCalls + 1
              \* the search is called only once the query is embedded
              /\ searchOutcome' = IF embed = "ok" THEN search ELSE NoSearch
              /\ searchCalls' = IF embed = "ok" THEN searchCalls + 1
                                ELSE searchCalls
              /\ embed = "fail" => search = NoSearch
              /\ raised' = found.raised
              /\ relevant_docs' = found.value
              /\ pc' = AfterRetrieval(found)
    /\ UNCHANGED <<question, completionOutcome, completionCalls,
                   context_docs, answer, response>>
    /\ UNCHANGED <<chunkVars, indexVars, replVars>>

\* if not relevant_docs: return the fixed response
RespondNoResults ==
    /\ pc = "NoResults"
    /\ response' = NoResultsResponse
    /\ pc' = "Responded"
    /\ UNCHANGED <<question, embedOutcome, searchOutcome,
                   completionOutcome, embedCalls, searchCalls,
                   completionCalls, relevant_docs, context_docs, answer,
                   raised>>
    /\ UNCHANGED <<chunkVars, indexVars, replVars>>

\* answer = self.generate_response(question, relevant_docs), then the
\* response is assembled and returned.
Generate ==
    /\ pc = "Generating"
    /\ \E completion \in CompletionOutcomes :
          LET generated == generate_response(completion)
          IN  /\ completionOutcome' = completion
              /\ completionCalls' = completionCalls + 1
              /\ context_docs' = ContextDocs(relevant_docs)
              /\ raised' = generated.raised
              /\ answer' = IF generated.raised THEN answer
                           ELSE generated.value
              /\ response' = IF generated.raised THEN response
                             ELSE ChatResponse(generated.value,
                                               relevant_docs)
              /\ pc' = IF generated.raised THEN "Raised" ELSE "Responded"
    /\ UNCHANGED <<question, embedOutcome, searchOutcome, embedCalls,
                   searchCalls, relevant_docs>>
    /\ UNCHANGED <<chunkVars, indexVars, replVars>>

(***************************************************************************)
(* Properties of a chat turn (checked under SpecChat).                     *)
(***************************************************************************)
\* C5: a turn whose retrieval yields an empty sequence returns the fixed
\* non-empty "couldn't find any relevant information" answer with no
\* sources and no context, and never makes the completion call.
C5_EmptyShortCircuit ==
    (pc \in {"NoResults", "Generating", "Responded", "Raised"}
        /\ relevant_docs = <<>>) =>
        /\ completionCalls = 0
        /\ pc \in {"NoResults", "Responded"}
        /\ pc = "Responded" =>
              /\ response.answer =
                    Str("I couldn't find any relevant information in the documentation to answer your question.")
              /\ response.sources = <<>>
              /\ response.context_used = <<>>

\* A turn answered after a successful search that found nothing.
C5_Witness ==
    /\ pc = "Responded"
    /\ embedOutcome = "ok"
    /\ searchCalls = 1
    /\ ~searchOutcome.raises /\ ~searchOutcome.broken
    /\ searchOutcome.docs = <<>>
    /\ relevant_docs = <<>>
    /\ response.sources = <<>>

\* C6: whatever the embedding, search and completion calls do, chat raises
\* nothing and returns a response with the fields answer (a string),
\* sources and context_used.
C6_WellFormedResponse ==
    pc \in {"Responded", "Raised"} =>
        /\ ~raised
        /\ pc = "Responded"
        /\ DOMAIN response = {"answer", "sources", "context_used"}
        /\ response.answer.type = "str"

\* A returned document that cannot be read: a required key is absent.
Unreadable(doc) ==
    ~({"id", "content", "@search.score"} \subseteq doc.keys)

\* The retrieval of the turn failed: in the embedding call, in the search
\* call or while reading a result.
RetrievalFailed ==
    \/ embedOutcome = "fail"
    \/ searchOutcome.raises
    \/ searchOutcome.broken
    \/ \E i \in 1..Len(searchOutcome.docs) : Unreadable(searchOutcome.docs[i])

\* C7: search_documents propagates no failure: when the embedding call, the
\* search call or the reading of a result fails, it returns the empty
\* sequence, with no partial results, and raises nothing.
C7_SearchSwallowsFailures ==
    (pc \in {"NoResults", "Generating", "Responded", "Raised"}
        /\ RetrievalFailed) =>
        /\ relevant_docs = <<>>
        /\ ~raised
        /\ pc # "Raised"

\* A search that returned a readable document followed by an unreadable
\* one.
C7_Witness ==
    /\ pc = "NoResults"
    /\ embedOutcome = "ok"
    /\ ~searchOutcome.raises /\ ~searchOutcome.broken
    /\ Len(searchOutcome.docs) = 2
    /\ ~Unreadable(searchOutcome.docs[1])
    /\ Unreadable(searchOutcome.docs[2])
    /\ relevant_docs = <<>>

\* C8: when the completion call fails, generate_response raises nothing and
\* returns the fixed apology; when it succeeds with a text, it returns that
\* text unchanged.
C8_GenerateFallback ==
    (pc \in {"Responded", "Raised"} /\ completionCalls = 1) =>
        /\ ~raised
        /\ completionOutcome.kind = "raise" =>
              answer =
                 Str("I'm sorry, I encountered an error while generating a response.")
        /\ (completionOutcome.kind = "content"
               /\ completionOutcome.content.type = "str") =>
              answer = completionOutcome.content

\* A turn whose completion call failed.
C8_Witness ==
    /\ pc = "Responded"
    /\ completionCalls = 1
    /\ completionOutcome.kind = "raise"
    /\ answer = ErrorAnswer

\* C9: in a turn whose retrieval returns N >= 1 results, sources and
\* context_used have length N and entry i of each is built from result i:
\* nothing is re-sorted, dropped or duplicated.
C9_SourcesMirrorRetrieval ==
    (pc = "Responded" /\ Len(relevant_docs) >= 1) =>
        /\ Len(response.sources) = Len(relevant_docs)
        /\ Len(response.context_used) = Len(relevant_docs)
        /\ \A i \in 1..Len(relevant_docs) :
              LET doc == relevant_docs[i]
                  n == Min(200, Len(doc.content))
              IN  /\ response.sources[i].title = doc.title
                  /\ response.sources[i].source = doc.source
                  /\ response.sources[i].score = doc.score
                  /\ DOMAIN response.sources[i] =
                        {"title", "source", "score"}
                  /\ SubSeq(response.context_used[i], 1, n) =
                        SubSeq(doc.content, 1, n)

\* A turn answered from two results in ascending order of score, with
\* different titles and contents.
C9_Witness ==
    /\ pc = "Responded"
    /\ Len(relevant_docs) = 2
    /\ relevant_docs[1].score < relevant_docs[2].score
    /\ relevant_docs[1].score <= 0
    /\ relevant_docs[1].title # relevant_docs[2].title
    /\ relevant_docs[1].content # relevant_docs[2].content
    /\ Len(response.sources) = 2

\* C10: every context_used entry is the first min(200, len(content))
\* characters of the content of its result followed by "...", whether or
\* not the content was cut.
C10_ContextPreview ==
    (pc = "Responded" /\ Len(relevant_docs) >= 1) =>
        \A i \in 1..Len(relevant_docs) :
           LET content == relevant_docs[i].content
               n == Min(200, Len(content))
           IN  /\ i \in DOMAIN response.context_used
               /\ response.context_used[i] =
                     SubSeq(content, 1, n) \o <<".", ".", ".">>

\* A turn answered from a content longer than 200 characters and a content
\* shorter than 200 characters.
C10_Witness ==
    /\ pc = "Responded"
    /\ Len(relevant_docs) = 2
    /\ Len(relevant_docs[1].content) > 200
    /\ Len(relevant_docs[2].content) < 200
    /\ Len(response.context_used[1]) = 203
    /\ Len(response.context_used[2]) = Len(relevant_docs[2].content) + 3

\* The steps a chat turn is made of.
TurnEdges ==
    { <<"Idle", "Retrieving">>, <<"Responded", "Retrieving">>,
      <<"Retrieving", "NoResults">>, <<"Retrieving", "Generating">>,
      <<"NoResults", "Responded">>, <<"Generating", "Responded">> }

\* The provider calls made so far in the turn.
TurnCalls ==
    /\ pc \in {"Idle", "Retrieving", "NoResults", "Generating", "Responded"}
    /\ pc = "Retrieving" =>
          embedCalls = 0 /\ searchCalls = 0 /\ completionCalls = 0
    /\ pc \in {"NoResults", "Generating", "Responded"} =>
          /\ embedCalls = 1
          /\ searchCalls = (IF embedOutcome = "ok" THEN 1 ELSE 0)
    /\ pc \in {"NoResults", "Generating"} => completionCalls = 0
    /\ pc = "Responded" =>
          completionCalls = (IF relevant_docs # <<>> THEN 1 ELSE 0)

\* A turn that has begun is never stuck: its next step can be taken.
TurnGoesOn ==
    pc \in {"Retrieving", "NoResults", "Generating"} =>
        ENABLED (Retrieve \/ RespondNoResults \/ Generate)

\* C19: a chat turn is one pass Idle -> Retrieving -> (NoResults |
\* Generating) -> Responded without retry: one embedding call, a search
\* call only after the embedding succeeded and then only one, a completion
\* call only after a non-empty retrieval and then only one; and the turn
\* always reaches Responded: every step it takes is one of these, and the
\* next one can always be taken until Responded.
C19_OnePassTurn ==
    /\ [](TurnCalls /\ TurnGoesOn)
    /\ [][UNCHANGED chatVars \/ <<pc, pc'>> \in TurnEdges]_vars

\* A turn that went through Generating and made one call of each kind.
C19_Witness ==
    /\ pc = "Responded"
    /\ embedCalls = 1
    /\ searchCalls = 1
    /\ completionCalls = 1
    /\ Len(relevant_docs) = MaxResults

\* C20: when retrieval returns N >= 1 results, generate_response is called
\* in that turn with all N of them in retrieval order, whatever their
\* scores.
C20_AllResultsGenerate ==
    (pc = "Responded" /\ Len(relevant_docs) >= 1) =>
        /\ completionCalls = 1
        /\ Len(context_docs) = Len(relevant_docs)
        /\ Len(context_docs) = Len(searchOutcome.docs)
        /\ \A i \in 1..Len(context_docs) :
             /\ context_docs[i] = relevant_docs[i]
             /\ context_docs[i].id = searchOutcome.docs[i].id
             /\ context_docs[i].score = searchOutcome.docs[i].score

\* A turn whose MaxResults results all have a score of 0 or less.
C20_Witness ==
    /\ pc = "Responded"
    /\ Len(context_docs) = MaxResults
    /\ \A i \in 1..Len(context_docs) : context_docs[i].score <= 0
    /\ \E i \in 1..Len(context_docs) : context_docs[i].score < 0


\* C22: in a turn whose retrieval returned N >= 1 results and whose
\* completion call failed (it raised, or gave no choices), the answer is
\* the fixed apology and sources and context_used hold all N entries;
\* sources and context_used are empty only when the retrieval returned
\* nothing or failed.
C22_SourcesSurviveFailure ==
    pc = "Responded" =>
        /\ (Len(relevant_docs) >= 1
              /\ completionOutcome.kind \in {"raise", "nochoices"}) =>
              /\ response.answer =
                    Str("I'm sorry, I encountered an error while generating a response.")
              /\ Len(response.sources) = Len(relevant_docs)
              /\ Len(response.context_used) = Len(relevant_docs)
              /\ Len(relevant_docs) = Len(searchOutcome.docs)
        /\ (response.sources = <<>> \/ response.context_used = <<>>) =>
              /\ response.sources = <<>>
              /\ response.context_used = <<>>
              /\ relevant_docs = <<>>
              /\ completionCalls = 0
              /\ RetrievalFailed \/ searchOutcome.docs = <<>>

\* A turn with MaxResults results whose completion gave no choices.
C22_Witness ==
    /\ pc = "Responded"
    /\ completionOutcome.kind = "nochoices"
    /\ Len(relevant_docs) = MaxResults
    /\ Len(response.sources) = MaxResults
    /\ Len(response.context_used) = MaxResults
    /\ response.answer = ErrorAnswer

(***************************************************************************)
(* Values of the indexing pipeline (src/src/index_documents.py).           *)
(***************************************************************************)
\* batch_size of DocumentIndexer.index_documents.
batch_size == 100

\* The files of the corpus, in the order find_documents returns them.
AllFiles ==
    [i \in 1..MaxFiles |->
        [dir |-> "docs", stem |-> <<"a", "b", "c", "d", "e">>[i],
         suffix |-> ".md"]]

Files == {AllFiles[i] : i \in 1..Len(AllFiles)}

\* The file lists main hands to process_documents when the files dir
\* exist: never empty, in any order and with repetitions.  --files passes
\* the paths as they were typed; find_documents sorts, but lists a file
\* once for every extension pattern it matches.
FileLists(dir) ==
    UNION {[1..n -> dir] : n \in 1..MaxPaths}

\* What a file can hold: two characters, or eight with a period at
\* offset 5.
FileTexts ==
    { <<"a", "b">>,
      <<"a", "b", "c", "d", "e", ".", "g", "h">> }

\* What open/read can do: raise, or give the content (possibly empty).
ReadOutcomes == {Raise} \cup {Ok(t) : t \in FileTexts \cup {<<>>}}

\* The --chunk-size / --chunk-overlap pairs of a run.
IndexArgs ==
    { [size |-> 7, overlap |-> 3],
      [size |-> 7, overlap |-> 6] }

Digit(d) == <<"0", "1", "2", "3", "4", "5", "6", "7", "8", "9">>[d + 1]

\* str(n) of a non-negative integer.
RECURSIVE Decimal(_)
Decimal(n) ==
    IF n < 10 THEN <<Digit(n)>> ELSE Decimal(n \div 10) \o <<Digit(n % 10)>>

\* f"doc_{doc_id}"
DocId(n) == <<"d", "o", "c", "_">> \o Decimal(n)

\* file_path.stem
Stem(path) == path.stem

\* read_text_file: the content, or "" when the read raised.
read_text_file(out) == IF out.raised THEN <<>> ELSE out.value

\* chunk_text as a function: the list it returns, or the finding that it
\* never returns (the cursor comes back to a position it already had, and
\* the loop is deterministic).
RECURSIVE ChunkLoop(_, _, _, _, _, _)
ChunkLoop(txt, size, ovl, s, acc, seen) ==
    IF s >= Len(txt) THEN [returns |-> TRUE, chunks |-> acc]
    ELSE IF s \in seen THEN [returns |-> FALSE, chunks |-> acc]
    ELSE LET end == WindowEnd(txt, s, size)
         IN  ChunkLoop(txt, size, ovl, NextStart(end, ovl),
                       Append(acc, strip(PySlice(txt, s, end))),
                       seen \cup {s})

chunk_text(txt, size, ovl) == ChunkLoop(txt, size, ovl, 0, <<>>, {})

\* The index before any upload.
EmptyIndex == [id \in {} |-> <<>>]

\* upload_documents: every record of the batch is stored under its id and
\* replaces the record that had that id.
Upload(idx, batch) ==
    LET new == {batch[i].id : i \in 1..Len(batch)}
        Last(id) == CHOOSE i \in 1..Len(batch) :
                        /\ batch[i].id = id
                        /\ \A j \in (i+1)..Len(batch) : batch[j].id # id
    IN  [id \in DOMAIN idx \cup new |->
            IF id \in new THEN batch[Last(id)] ELSE idx[id]]

\* The chunk a record stands for: its file and its position in the file.
ChunkOf(doc) == [source |-> doc.source, chunk_id |-> doc.chunk_id]

(***************************************************************************)
(* process_documents, index_documents and the part of main that calls them *)
(***************************************************************************)
\* No indexing run is in progress; n runs over the files dir are still to
\* come; the index is empty.
IndexIdle(n, dir) ==
    /\ ipc = "idle"
    /\ runsLeft = n
    /\ corpus = dir
    /\ file_paths = <<>>
    /\ chunk_args = [size |-> 0, overlap |-> 0]
    /\ fileIdx = 0
    /\ fileChunks = <<>>
    /\ chunkIdx = 0
    /\ documents = <<>>
    /\ doc_id = 0
    /\ readLog = <<>>
    /\ embedLog = <<>>
    /\ batchStart = 0
    /\ sent = <<>>
    /\ result = NoReturn
    /\ log = <<>>
    /\ index = EmptyIndex
    /\ assigned = {}

\* main: create_search_index was asked for and returned False, sys.exit(1)
\* before any file is looked for.
CreateIndexFails ==
    /\ ipc \in {"idle", "nocreate", "exited", "indexed", "failed"}
    /\ runsLeft > 0
    /\ runsLeft' = runsLeft - 1
    /\ file_paths' = <<>>
    /\ chunk_args' = [size |-> 0, overlap |-> 0]
    /\ documents' = <<>>
    /\ doc_id' = 0
    /\ fileIdx' = 0
    /\ fileChunks' = <<>>
    /\ chunkIdx' = 0
    /\ readLog' = <<>>
    /\ embedLog' = <<>>
    /\ batchStart' = 0
    /\ sent' = <<>>
    /\ result' = NoReturn
    /\ log' = <<>>
    /\ ipc' = "nocreate"
    /\ UNCHANGED <<corpus, index, assigned>>

\* main gets the file list (create_search_index, when asked for, returned
\* True: the index keeps its records) and calls process_documents, which
\* starts with no records and doc_id = 0.
StartRun ==
    /\ ipc \in {"idle", "nocreate", "exited", "indexed", "failed"}
    /\ runsLeft > 0
    /\ runsLeft' = runsLeft - 1
    /\ file_paths' \in FileLists(corpus)
    /\ chunk_args' \in IndexArgs
    /\ documents' = <<>>
    /\ doc_id' = 0
    /\ fileIdx' = 1
    /\ fileChunks' = <<>>
    /\ chunkIdx' = 0
    /\ readLog' = <<>>
    /\ embedLog' = <<>>
    /\ batchStart' = 0
    /\ sent' = <<>>
    /\ result' = NoReturn
    /\ log' = <<>>
    /\ ipc' = "files"
    /\ UNCHANGED <<corpus, index, assigned>>

\* The next file is read; an unreadable or empty one is skipped, any other
\* is chunked (chunk_text may never return).
ReadFile ==
    /\ ipc = "files"
    /\ fileIdx <= Len(file_paths)
    /\ \E out \in ReadOutcomes :
         LET content == read_text_file(out)
             cut == chunk_text(content, chunk_args.size, chunk_args.overlap)
         IN  /\ readLog' = Append(readLog, [source |-> file_paths[fileIdx],
                                            read |-> out])
             /\ IF content = <<>>
                THEN /\ fileIdx' = fileIdx + 1
                     /\ UNCHANGED <<ipc, fileChunks>>
                ELSE IF ~cut.returns
                THEN /\ ipc' = "hung"
                     /\ UNCHANGED <<fileIdx, fileChunks>>
                ELSE /\ ipc' = "chunks"
                     /\ fileChunks' = cut.chunks
                     /\ UNCHANGED fileIdx
    /\ chunkIdx' = 0
    /\ UNCHANGED <<runsLeft, corpus, file_paths, chunk_args, documents, doc_id,
                   embedLog, batchStart, sent, result, log, index, assigned>>

\* Document with the chunks numbered through the whole run.
DocumentNumberedThrough(n, path, k, chunk, embeddings) ==
    [id |-> DocId(n), title |-> Stem(path), content |-> chunk,
     source |-> path, chunk_id |-> n, contentVector |-> embeddings]

\* The record process_documents builds for one chunk.
Document(n, path, k, chunk, embeddings) ==
    [id |-> DocId(n), title |-> Stem(path), content |-> chunk,
     source |-> path, chunk_id |-> k, contentVector |-> embeddings]

\* NextDocId with the number advanced for every chunk, stored or not.
NextDocIdPerChunk(n, stored) == n + 1

\* doc_id after a chunk: advanced only when the record was appended.
NextDocId(n, stored) == IF stored THEN n + 1 ELSE n

\* AfterChunk with the rest of the file abandoned at a failed embedding.
AfterChunkAbandoning(k, n, stored) == IF stored THEN k + 1 ELSE n

\* The chunk the loop over enumerate(chunks) turns to after chunk k of n.
AfterChunk(k, n, stored) == k + 1

\* One pass of the loop over the chunks of a file: the chunk is embedded
\* and its record appended, or the embedding fails and the chunk is
\* skipped.  After the last chunk the loop over the files goes on.
EmbedChunk ==
    /\ ipc = "chunks"
    /\ chunkIdx < Len(fileChunks)
    /\ \E embed \in {"ok", "fail"} :
         LET path == file_paths[fileIdx]
             chunk == fileChunks[chunkIdx + 1]
             embeddings == generate_embeddings(embed)
             stored == ~embeddings.raised
             next == AfterChunk(chunkIdx, Len(fileChunks), stored)
         IN  /\ documents' =
                   IF stored
                   THEN Append(documents, Document(doc_id, path, chunkIdx,
                                                   chunk, embeddings.value))
                   ELSE documents
             /\ doc_id' = NextDocId(doc_id, stored)
             /\ embedLog' = Append(embedLog, [file |-> fileIdx,
                                              source |-> path,
                                              pos |-> chunkIdx,
                                              chunk |-> chunk,
                                              ok |-> stored])
             /\ chunkIdx' = next
             /\ IF next >= Len(fileChunks)
                THEN ipc' = "files" /\ fileIdx' = fileIdx + 1
                ELSE UNCHANGED <<ipc, fileIdx>>
    /\ UNCHANGED <<runsLeft, corpus, file_paths, chunk_args, fileChunks, readLog,
                   batchStart, sent, result, log, index, assigned>>

\* The loop over the files is over: process_documents returns documents.
ReturnDocuments ==
    /\ ipc = "files"
    /\ fileIdx > Len(file_paths)
    /\ ipc' = "processed"
    /\ UNCHANGED <<runsLeft, corpus, file_paths, chunk_args, fileIdx, fileChunks,
                   chunkIdx, documents, doc_id, readLog, embedLog,
                   batchStart, sent, result, log, index, assigned>>

\* main: no record was built, sys.exit(0) without an upload.
ExitNoDocuments ==
    /\ ipc = "processed"
    /\ documents = <<>>
    /\ ipc' = "exited"
    /\ UNCHANGED <<runsLeft, corpus, file_paths, chunk_args, fileIdx, fileChunks,
                   chunkIdx, documents, doc_id, readLog, embedLog,
                   batchStart, sent, result, log, index, assigned>>

\* main calls indexer.index_documents(documents).
CallIndexDocuments ==
    /\ ipc = "processed"
    /\ documents # <<>>
    /\ ipc' = "uploading"
    /\ batchStart' = 0
    /\ UNCHANGED <<runsLeft, corpus, file_paths, chunk_args, fileIdx, fileChunks,
                   chunkIdx, documents, doc_id, readLog, embedLog,
                   sent, result, log, index, assigned>>

\* What index_documents logs when an upload raises: the exception only.
ErrorReport(e) ==
    [level |-> "error", event |-> "Error indexing documents", exception |-> e]

\* What index_documents logs after a batch.
BatchReport(i, batch) ==
    [level |-> "info", event |-> "Indexed batch",
     number |-> (i \div batch_size) + 1, size |-> Len(batch)]

\* Batch with one record more than batch_size, the first of the next batch.
BatchOverlapping(docs, i) == PySlice(docs, i, i + batch_size + 1)

\* documents[i:i+batch_size]
Batch(docs, i) == PySlice(docs, i, i + batch_size)

\* One pass of the loop of index_documents: the batch documents[i:i+100]
\* is uploaded, or the upload raises and the call returns False.
UploadBatch ==
    /\ ipc = "uploading"
    /\ batchStart < Len(documents)
    /\ \E up \in {"ok", "fail"} :
         LET batch == Batch(documents, batchStart)
         IN  IF up = "ok"
             THEN /\ index' = Upload(index, batch)
                  /\ assigned' = assigned \cup
                        {[id |-> batch[i].id, chunk |-> ChunkOf(batch[i])] :
                            i \in 1..Len(batch)}
                  /\ sent' = Append(sent, batch)
                  /\ log' = Append(log, BatchReport(batchStart, batch))
                  /\ batchStart' = batchStart + batch_size
                  /\ UNCHANGED <<ipc, result>>
             ELSE /\ log' = Append(log, ErrorReport("upload failed"))
                  /\ result' = Ok(FALSE)
                  /\ ipc' = "failed"
                  /\ UNCHANGED <<index, assigned, sent, batchStart>>
    /\ UNCHANGED <<runsLeft, corpus, file_paths, chunk_args, fileIdx, fileChunks,
                   chunkIdx, documents, doc_id, readLog, embedLog>>

\* The loop of index_documents is over: the call returns True.
UploadDone ==
    /\ ipc = "uploading"
    /\ batchStart >= Len(documents)
    /\ log' = Append(log, [level |-> "info",
                           event |-> "Successfully indexed",
                           size |-> Len(documents)])
    /\ result' = Ok(TRUE)
    /\ ipc' = "indexed"
    /\ UNCHANGED <<runsLeft, corpus, file_paths, chunk_args, fileIdx, fileChunks,
                   chunkIdx, documents, doc_id, readLog, embedLog,
                   batchStart, sent, index, assigned>>

\* The lists index_documents is given when it is called on its own: n
\* records of one file.
Records(n) ==
    [i \in 1..n |-> Document(i - 1, AllFiles[1], i - 1, <<"a">>, "vector")]

\* index_documents is called on its own with a list of records.
IndexCalled(docs) ==
    /\ ipc = "uploading"
    /\ runsLeft = 0
    /\ corpus = {}
    /\ file_paths = <<>>
    /\ chunk_args = [size |-> 0, overlap |-> 0]
    /\ fileIdx = 0
    /\ fileChunks = <<>>
    /\ chunkIdx = 0
    /\ documents = docs
    /\ doc_id = Len(docs)
    /\ readLog = <<>>
    /\ embedLog = <<>>
    /\ batchStart = 0
    /\ sent = <<>>
    /\ result = NoReturn
    /\ log = <<>>
    /\ index = EmptyIndex
    /\ assigned = {}

(***************************************************************************)
(* Properties of the indexing pipeline.                                    *)
(***************************************************************************)
\* process_documents has returned its list.
Returned == ipc \in {"processed", "exited", "uploading", "indexed", "failed"}

\* C11: after any sequence of indexing runs into the same index, an id has
\* been given to one chunk only (one source file and one position in it),
\* so no upload replaces the record of another chunk.
C11_IdsNeverShared ==
    \A a, b \in assigned : a.id = b.id => a.chunk = b.chunk

\* The embeddings that succeeded, in call order: the i-th one made the
\* i-th record of the output.
Embedded == SelectSeq(embedLog, LAMBDA e : e.ok)

\* The entry of the file list (a file may be listed more than once) that
\* record i comes from.
FileOf(i) == Embedded[i].file

\* The records of the output that come from entry k of the file list, and
\* their chunk_ids.
FileRecords(k) ==
    LET tagged == [i \in 1..Len(documents) |->
                      [file |-> FileOf(i), doc |-> documents[i]]]
        mine == SelectSeq(tagged, LAMBDA r : r.file = k)
    IN  [i \in 1..Len(mine) |-> mine[i].doc]

ChunkIds(k) == [i \in 1..Len(FileRecords(k)) |-> FileRecords(k)[i].chunk_id]

\* C12: in the output of one process_documents run the chunk_ids of the
\* records of every contributing file are exactly 0, 1, ..., m-1, whatever
\* embeddings failed.
C12_ContiguousChunkIds ==
    Returned =>
        \A k \in 1..Len(file_paths) :
            LET ids == {ChunkIds(k)[i] : i \in 1..Len(ChunkIds(k))}
            IN  ids = 0..(Cardinality(ids) - 1)

\* What the run read for entry k of the file list, and the chunk list
\* chunk_text makes of it.
ReadOf(k) == read_text_file(readLog[k].read)

ChunkListOf(k) ==
    chunk_text(ReadOf(k), chunk_args.size, chunk_args.overlap).chunks

\* C13: the chunk_id of a record is the position, from 0, of its chunk in
\* the chunk list of its own file; the records of a file come in
\* increasing chunk_id, and a file whose chunks were all embedded has the
\* chunk_ids 0, 1, ..., n-1.
C13_ChunkIdIsPosition ==
    /\ \A i \in 1..Len(documents) :
         LET d == documents[i]
             list == ChunkListOf(FileOf(i))
         IN  /\ d.source = file_paths[FileOf(i)]
             /\ d.chunk_id \in 0..(Len(list) - 1)
             /\ list[d.chunk_id + 1] = d.content
    /\ \A k \in 1..Len(file_paths) :
         LET ids == ChunkIds(k)
         IN  /\ \A i \in 1..(Len(ids) - 1) : ids[i] < ids[i + 1]
             /\ (Returned /\ ids # <<>> /\ Len(ids) = Len(ChunkListOf(k)))
                    => ids = [i \in 1..Len(ids) |-> i - 1]

\* Two files of three chunks each, all embedded, give 0,1,2 and 0,1,2.
C13_Witness ==
    /\ ipc = "processed"
    /\ Len(documents) = 6
    /\ \E k, l \in 1..Len(file_paths) :
         /\ file_paths[k] # file_paths[l]
         /\ ChunkIds(k) = <<0, 1, 2>>
         /\ ChunkIds(l) = <<0, 1, 2>>

\* The number a string of decimal digits stands for.
DigitValue(c) == CHOOSE d \in 0..9 : Digit(d) = c

RECURSIVE DecimalValue(_)
DecimalValue(digits) ==
    IF digits = <<>> THEN 0
    ELSE 10 * DecimalValue(SubSeq(digits, 1, Len(digits) - 1))
         + DigitValue(digits[Len(digits)])

\* id is "doc_" followed by the decimal numeral of n.
IsDocId(id, n) ==
    /\ Len(id) > 4
    /\ SubSeq(id, 1, 4) = <<"d", "o", "c", "_">>
    /\ LET digits == SubSeq(id, 5, Len(id))
       IN  /\ \A i \in 1..Len(digits) : \E d \in 0..9 : digits[i] = Digit(d)
           /\ (Len(digits) > 1 => digits[1] # "0")
           /\ DecimalValue(digits) = n

\* C14: within one run the k-th record (from 0) has the id "doc_k", so the
\* ids are pairwise distinct and increase in output order, also when files
\* are skipped or embeddings fail.
C14_IdsCountRecords ==
    /\ \A k \in 1..Len(documents) : IsDocId(documents[k].id, k - 1)
    /\ \A j, k \in 1..Len(documents) :
         j # k => documents[j].id # documents[k].id

\* A run with a skipped file, a failed embedding and records after both.
C14_Witness ==
    /\ ipc = "processed"
    /\ \E i \in 1..Len(readLog) : readLog[i].read.raised
    /\ \E i \in 1..Len(embedLog) : \E j \in (i+1)..Len(embedLog) :
         ~embedLog[i].ok /\ embedLog[j].ok
    /\ Len(documents) >= 2

\* The entries of the file list whose read gave a text that is not empty.
ReadableFiles == {k \in 1..Len(readLog) : ReadOf(k) # <<>>}

\* C15: whatever files cannot be read, process_documents runs to
\* completion without raising, goes on to every later file, and its output
\* holds records of the readable files only, in the order of the files.
C15_UnreadableFilesSkipped ==
    /\ ipc # "hung"
    /\ Returned =>
         /\ Len(readLog) = Len(file_paths)
         /\ \A i \in 1..Len(documents) :
              /\ FileOf(i) \in ReadableFiles
              /\ documents[i].source = file_paths[FileOf(i)]
         /\ \A i, j \in 1..Len(documents) :
              i < j => FileOf(i) <= FileOf(j)

\* Every chunk of every file of the list, in file order then chunk order.
RECURSIVE ChunksOfFiles(_)
ChunksOfFiles(i) ==
    IF i > Len(file_paths) THEN <<>>
    ELSE LET list == ChunkListOf(i)
         IN  [k \in 1..Len(list) |->
                 [file |-> i, source |-> file_paths[i], pos |-> k - 1,
                  chunk |-> list[k]]]
             \o ChunksOfFiles(i + 1)

\* C16: whatever embeddings fail, every chunk of every file is tried, and
\* the output holds one record for each chunk whose embedding succeeded and
\* none for a chunk whose embedding failed, in file order then chunk order.
C16_OneRecordPerEmbeddedChunk ==
    Returned =>
        LET tried == [i \in 1..Len(embedLog) |->
                         [file |-> embedLog[i].file,
                          source |-> embedLog[i].source,
                          pos |-> embedLog[i].pos,
                          chunk |-> embedLog[i].chunk]]
        IN  /\ tried = ChunksOfFiles(1)
            /\ Len(documents) = Len(Embedded)
            /\ \A i \in 1..Len(documents) :
                 /\ documents[i].source = Embedded[i].source
                 /\ documents[i].content = Embedded[i].chunk
                 /\ documents[i].chunk_id = Embedded[i].pos

\* A failed embedding with a record of a later chunk of the same file and
\* records of a later file.
C16_Witness ==
    /\ ipc = "processed"
    /\ \E i \in 1..Len(embedLog) : \E j \in (i+1)..Len(embedLog) :
         /\ ~embedLog[i].ok
         /\ embedLog[j].ok
         /\ embedLog[j].file = embedLog[i].file
         /\ \E k \in 1..Len(documents) :
              /\ FileOf(k) = embedLog[j].file
              /\ documents[k].chunk_id = embedLog[j].pos
              /\ \E l \in (k+1)..Len(documents) : FileOf(l) > FileOf(k)

\* C17: when the upload of batch k fails, index_documents has uploaded the
\* batches before k only, returns False, and its failure report names k.
C17_FailureNamesBatch ==
    ipc = "failed" =>
        LET k == Len(sent) + 1
            report == log[Len(log)]
        IN  /\ result = Ok(FALSE)
            /\ batchStart = (k - 1) * batch_size
            /\ report.level = "error"
            /\ "number" \in DOMAIN report
            /\ report.number = k

\* The records of a list of batches, in the order they were sent.
RECURSIVE Flatten(_)
Flatten(batches) ==
    IF batches = <<>> THEN <<>>
    ELSE Flatten(SubSeq(batches, 1, Len(batches) - 1))
         \o batches[Len(batches)]

\* C21: when every upload succeeds, index_documents on n records sends
\* ceil(n/100) batches of at most 100 records each, and the batches put
\* end to end in send order are the input list: every record is uploaded
\* once, in input order.
C21_BatchesPartitionInput ==
    ipc = "indexed" =>
        /\ result = Ok(TRUE)
        /\ Len(sent) = CeilDiv(Len(documents), 100)
        /\ \A k \in 1..Len(sent) : Len(sent[k]) \in 1..100
        /\ Flatten(sent) = documents

\* A call on more than 200 records: three batches, the last one short.
C21_Witness ==
    /\ ipc = "indexed"
    /\ Len(documents) > 200
    /\ Len(sent) = 3
    /\ Len(sent[3]) < Len(sent[1])

(***************************************************************************)
(* repl_loop of src/api/cli_direct.py                                      *)
(***************************************************************************)
UpperCase == <<"A", "B", "C", "D", "E", "F", "G", "H", "I", "J", "K", "L", "M",
               "N", "O", "P", "Q", "R", "S", "T", "U", "V", "W", "X", "Y", "Z">>

LowerCase == <<"a", "b", "c", "d", "e", "f", "g", "h", "i", "j", "k", "l", "m",
               "n", "o", "p", "q", "r", "s", "t", "u", "v", "w", "x", "y", "z">>

\* s.lower()
lower(s) ==
    [i \in 1..Len(s) |->
        IF \E k \in 1..26 : UpperCase[k] = s[i]
        THEN LowerCase[CHOOSE k \in 1..26 : UpperCase[k] = s[i]]
        ELSE s[i]]

ExitCommand == <<"/", "e", "x", "i", "t">>

QuitCommand == <<"/", "q", "u", "i", "t">>

ResetCommand == <<"/", "r", "e", "s", "e", "t">>

HistoryCommand == <<"/", "h", "i", "s", "t", "o", "r", "y">>

\* The lines typed at the prompt.
Lines ==
    { <<>>, <<" ">>,
      ExitCommand, <<"/", "Q", "U", "I", "T">>,
      ResetCommand, <<" ", "/", "R", "e", "s", "e", "t", " ">>,
      HistoryCommand,
      <<"H", "i", " ">>,
      <<"/", "r", "e", "s", "e", "t", " ", "x">> }

\* What input() can do: raise EOFError or KeyboardInterrupt, or give a line.
InputOutcomes == {Raise} \cup {Ok(l) : l \in Lines}

\* The system prompts of a session (--system), as characters.
SystemPrompts == {<<"B", "e", " ", "b", "r", "i", "e", "f", ".">>, <<>>}

\* What the completion call of the REPL can do: raise, give no choices,
\* give None as content, or give a text (possibly empty).
ReplCompletions ==
    {[kind |-> "raise", content |-> PyNone],
     [kind |-> "nochoices", content |-> PyNone],
     [kind |-> "content", content |-> PyNone]}
    \cup {[kind |-> "content", content |-> Str(t)] :
              t \in {<<>>, <<"O", "k", ".">>}}

SystemMessage(prompt) == [role |-> "system", content |-> Str(prompt)]

UserMessage(line) == [role |-> "user", content |-> Str(line)]

AssistantMessage(content) == [role |-> "assistant", content |-> content]

\* AppendMessage with a history window: the oldest message after the system
\* message is dropped once four messages are held.
AppendPruning(msgs, m) ==
    IF Len(msgs) >= 4
    THEN <<msgs[1]>> \o SubSeq(msgs, 3, Len(msgs)) \o <<m>>
    ELSE Append(msgs, m)

\* messages.append(m)
AppendMessage(msgs, m) == Append(msgs, m)

\* AfterCall with the reply appended whenever there is a first choice,
\* also when its content is None.
AfterCallAppendingNone(asked, completion) ==
    IF completion.kind = "content"
    THEN AppendMessage(asked, AssistantMessage(completion.content))
    ELSE asked

\* The conversation after the completion call on asked: the reply is
\* appended when the call gave a first choice whose content is not None.
AfterCall(asked, completion) ==
    IF completion.kind = "content" /\ completion.content # PyNone
    THEN AppendMessage(asked, AssistantMessage(completion.content))
    ELSE asked

\* No REPL session is running.
ReplIdle ==
    /\ rpc = "off"
    /\ system_prompt = <<>>
    /\ messages = <<>>
    /\ user_input = <<>>
    /\ request = <<>>
    /\ reply = NoCompletion

\* repl_loop is entered: the conversation is the system message.
ReplInit ==
    /\ rpc = "prompt"
    /\ system_prompt \in SystemPrompts
    /\ messages = <<SystemMessage(system_prompt)>>
    /\ user_input = <<>>
    /\ request = <<>>
    /\ reply = NoCompletion

\* input() raises EOFError or KeyboardInterrupt: the loop is left.
ReplEnd ==
    /\ rpc = "prompt"
    /\ \E in \in InputOutcomes : in.raised
    /\ rpc' = "done"
    /\ UNCHANGED <<system_prompt, messages, user_input, request, reply>>

\* An empty line: the loop goes on.
ReplBlank ==
    /\ rpc = "prompt"
    /\ \E in \in InputOutcomes :
         /\ ~in.raised
         /\ user_input' = strip(in.value)
         /\ user_input' = <<>>
    /\ UNCHANGED <<rpc, system_prompt, messages, request, reply>>

\* /exit or /quit: the loop is left.
ReplExit ==
    /\ rpc = "prompt"
    /\ \E in \in InputOutcomes :
         /\ ~in.raised
         /\ user_input' = strip(in.value)
         /\ lower(user_input') \in {ExitCommand, QuitCommand}
    /\ rpc' = "done"
    /\ UNCHANGED <<system_prompt, messages, request, reply>>

\* /reset: the conversation is the system message again.
ReplReset ==
    /\ rpc = "prompt"
    /\ \E in \in InputOutcomes :
         /\ ~in.raised
         /\ user_input' = strip(in.value)
         /\ lower(user_input') = ResetCommand
    /\ messages' = <<SystemMessage(system_prompt)>>
    /\ UNCHANGED <<rpc, system_prompt, request, reply>>

\* /history: the conversation is printed.
ReplHistory ==
    /\ rpc = "prompt"
    /\ \E in \in InputOutcomes :
         /\ ~in.raised
         /\ user_input' = strip(in.value)
         /\ lower(user_input') = HistoryCommand
    /\ UNCHANGED <<rpc, system_prompt, messages, request, reply>>

\* Any other line: the user message is appended, the conversation is sent
\* to the model, and the reply is appended unless the call raised, gave no
\* choices or gave None.
ReplSend ==
    /\ rpc = "prompt"
    /\ Len(messages) + 2 <= MaxMessages
    /\ \E in \in InputOutcomes, completion \in ReplCompletions :
         /\ ~in.raised
         /\ user_input' = strip(in.value)
         /\ user_input' # <<>>
         /\ lower(user_input') \notin {ExitCommand, QuitCommand,
                                       ResetCommand, HistoryCommand}
         /\ LET asked == AppendMessage(messages, UserMessage(user_input'))
            IN  /\ request' = asked
                /\ reply' = completion
                /\ messages' = AfterCall(asked, completion)
    /\ UNCHANGED <<rpc, system_prompt>>

(***************************************************************************)
(* Properties of the REPL (checked under SpecRepl).                        *)
(***************************************************************************)
\* s is an initial part of t.
IsPrefix(s, t) == Len(s) <= Len(t) /\ SubSeq(t, 1, Len(s)) = s

\* C18: every step of a REPL session leaves the conversation as it is or
\* appends messages at its end, except /reset, which leaves exactly the
\* system message with the session's system prompt.
C18_AppendOnlyUntilReset ==
    [][ \/ IsPrefix(messages, messages')
        \/ /\ lower(user_input') = ResetCommand
           /\ messages' = <<SystemMessage(system_prompt)>> ]_vars

\* A /reset typed after a conversation of at least two exchanges.
C18_Witness ==
    /\ lower(user_input) = ResetCommand
    /\ messages = <<SystemMessage(system_prompt)>>
    /\ Len(request) >= 4

\* The completion call gave no content: it raised, gave no choices, or
\* gave a first choice whose content is None.
NoContent(completion) ==
    \/ completion.kind \in {"raise", "nochoices"}
    \/ completion.kind = "content" /\ completion.content.type = "NoneType"

\* The completion call gave empty content: no content, or the empty string.
EmptyContent(completion) ==
    \/ NoContent(completion)
    \/ completion.kind = "content" /\ completion.content = Str(<<>>)

\* The line read is a message for the model: not blank and not a command.
IsMessage(line) ==
    /\ line # <<>>
    /\ lower(line) \notin {ExitCommand, QuitCommand, ResetCommand,
                            HistoryCommand}

\* The step is a turn of the loop that read a message: the loop goes on
\* and the line read is not blank and not a command.
MessageTurn == rpc = "prompt" /\ rpc' = "prompt" /\ IsMessage(user_input')

\* The first entry is the system message, no other entry is, and every
\* assistant entry directly follows a user entry.
WellFormedConversation ==
    rpc # "off" =>
        /\ Len(messages) >= 1
        /\ messages[1] = [role |-> "system", content |-> Str(system_prompt)]
        /\ \A i \in 2..Len(messages) :
             /\ messages[i].role \in {"user", "assistant"}
             /\ messages[i].role = "assistant" =>
                    messages[i - 1].role = "user"

\* C23 as claimed: in the REPL the user's message is in the conversation
\* when the completion call is made; when the call raises, gives no choices
\* or gives empty content (None or the empty string), no assistant message
\* is appended and the user's message stays; the first entry is always the
\* system message and every assistant entry directly follows a user entry.
C23_NoAssistantOnEmptyContent ==
    /\ []WellFormedConversation
    /\ [][MessageTurn =>
            LET asked == Append(messages, [role |-> "user",
                                           content |-> Str(user_input')])
            IN  /\ request' = asked
                /\ IsPrefix(asked, messages')
                /\ EmptyContent(reply') => messages' = asked
        ]_vars

\* C23 (amended): in the REPL the user's message is in the conversation
\* when the completion call is made; when the call raises, gives no choices
\* or gives None as content, no assistant message is appended and the
\* user's message stays, and any other reply, the empty string included, is
\* appended as one assistant entry right after the user's message; the
\* first entry is always the system message and every assistant entry
\* directly follows a user entry.
C23_UserKeptOnFailure ==
    /\ []WellFormedConversation
    /\ [][MessageTurn =>
            LET asked == Append(messages, [role |-> "user",
                                           content |-> Str(user_input')])
            IN  /\ request' = asked
                /\ IsPrefix(asked, messages')
                /\ NoContent(reply') => messages' = asked
                /\ ~NoContent(reply') =>
                      messages' = Append(asked, [role |-> "assistant",
                                                 content |-> reply'.content])
        ]_vars

\* After an answered exchange, a call that gave a first choice whose
\* content is None: the conversation ends with the user's message.
C23_Witness ==
    /\ rpc = "prompt"
    /\ reply.kind = "content"
    /\ NoContent(reply)
    /\ IsMessage(user_input)
    /\ messages = request
    /\ Len(messages) >= 4
    /\ messages[Len(messages)].role = "user"
    /\ messages[Len(messages)].content = Str(user_input)
    /\ messages[Len(messages) - 1].role = "assistant"

(***************************************************************************)
(* Specifications.                                                         *)
(***************************************************************************)
ChunkIdle ==
    /\ text = <<>>
    /\ chunk_size = 1
    /\ overlap = 0
    /\ start = 0
    /\ chunks = <<>>
    /\ spans = <<>>
    /\ iters = 0
    /\ cpc = "done"

InitChunk == ChunkInit /\ ChatIdle /\ IndexIdle(0, {}) /\ ReplIdle

NextChunk ==
    \/ ChunkStep /\ UNCHANGED <<chatVars, indexVars, replVars>>
    \/ ChunkReturn /\ UNCHANGED <<chatVars, indexVars, replVars>>

SpecChunk == InitChunk /\ [][NextChunk]_vars

InitChat == ChunkIdle /\ ChatIdle /\ IndexIdle(0, {}) /\ ReplIdle

NextChat == Ask \/ Retrieve \/ RespondNoResults \/ Generate

SpecChat == InitChat /\ [][NextChat]_vars


InitIndex == ChunkIdle /\ ChatIdle /\ IndexIdle(1, Files) /\ ReplIdle

NextIndex ==
    \/ CreateIndexFails /\ UNCHANGED <<chunkVars, chatVars, replVars>>
    \/ StartRun /\ UNCHANGED <<chunkVars, chatVars, replVars>>
    \/ ReadFile /\ UNCHANGED <<chunkVars, chatVars, replVars>>
    \/ EmbedChunk /\ UNCHANGED <<chunkVars, chatVars, replVars>>
    \/ ReturnDocuments /\ UNCHANGED <<chunkVars, chatVars, replVars>>
    \/ ExitNoDocuments /\ UNCHANGED <<chunkVars, chatVars, replVars>>
    \/ CallIndexDocuments /\ UNCHANGED <<chunkVars, chatVars, replVars>>
    \/ UploadBatch /\ UNCHANGED <<chunkVars, chatVars, replVars>>
    \/ UploadDone /\ UNCHANGED <<chunkVars, chatVars, replVars>>

\* One indexing run into an empty index.
SpecIndex == InitIndex /\ [][NextIndex]_vars

InitReindex ==
    /\ ChunkIdle
    /\ ChatIdle
    /\ IndexIdle(MaxRuns, {AllFiles[1], AllFiles[2]})
    /\ ReplIdle

\* MaxRuns indexing runs, one after the other, into the same index.
SpecReindex == InitReindex /\ [][NextIndex]_vars

InitUpload ==
    /\ ChunkIdle
    /\ ChatIdle
    /\ \E n \in 0..MaxDocs : IndexCalled(Records(n))
    /\ ReplIdle

NextUpload ==
    \/ UploadBatch /\ UNCHANGED <<chunkVars, chatVars, replVars>>
    \/ UploadDone /\ UNCHANGED <<chunkVars, chatVars, replVars>>

\* One call of index_documents.
SpecUpload == InitUpload /\ [][NextUpload]_vars



InitRepl == ChunkIdle /\ ChatIdle /\ IndexIdle(0, {}) /\ ReplInit

NextRepl ==
    \/ ReplEnd /\ UNCHANGED <<chunkVars, chatVars, indexVars>>
    \/ ReplBlank /\ UNCHANGED <<chunkVars, chatVars, indexVars>>
    \/ ReplExit /\ UNCHANGED <<chunkVars, chatVars, indexVars>>
    \/ ReplReset /\ UNCHANGED <<chunkVars, chatVars, indexVars>>
    \/ ReplHistory /\ UNCHANGED <<chunkVars, chatVars, indexVars>>
    \/ ReplSend /\ UNCHANGED <<chunkVars, chatVars, indexVars>>

\* One session of the REPL.
SpecRepl == InitRepl /\ [][NextRepl]_vars

=============================================================================
